---------------------------- MODULE Spec2Model ----------------------------
(***************************************************************************)
(* Model of the wasmbus RPC runtime core (rpc-rs/src/lib.rs):              *)
(*   - core::WasmCloudEntity  (constructors, url, is_actor, is_provider,   *)
(*     TryFrom<&str>/TryFrom<String>),                                     *)
(*   - core::LinkDefinition   (actor_entity, provider_entity),             *)
(*   - core::HostData         (is_test, nats_connect),                     *)
(*   - the From<...> conversions into RpcError.                            *)
(*                                                                         *)
(* A Rust String is a sequence of characters; a character is a one-letter  *)
(* TLA+ string.  An RpcResult<T> is a record [ok |-> TRUE, val |-> v] or   *)
(* [ok |-> FALSE, err |-> e], and an RpcError is [kind |-> k, msg |-> m].  *)
(***************************************************************************)
EXTENDS Naturals, Sequences, FiniteSets, TLC

VARIABLES
    pc,         \* position of the scenario: which call runs next
    s1, s2,     \* the string arguments handed to a constructor or conversion
    link,       \* the LinkDefinition read by actor_entity / provider_entity
    self,       \* the WasmCloudEntity a method is called on (&self)
    other,      \* a second WasmCloudEntity, compared with self
    call,       \* the name of the operation that ran first (it built `self`)
    ret,        \* what that operation returned
    obs,        \* what the methods called on `self` returned, by method name
    obs2,       \* what the methods called on `other` returned, by method name
    foreign,    \* a foreign error about to be converted into RpcError
    host,       \* HostData handed to the provider at startup
    nats_addr,  \* nats_connect's local `nats_addr`
    nats_server,\* nats_connect's local `nats_server` (parsed address)
    dials,      \* number of connection attempts made, Options::connect's first
    conn        \* the nats connection: its options, its state, its counters

entityVars == <<s1, s2, link, self, other, obs, obs2>>

connVars == <<host, nats_addr, nats_server, dials, conn>>

vars == <<pc, call, ret, entityVars, foreign, connVars>>

-----------------------------------------------------------------------------
(* Bounds of the model *)

\* longest constructor argument and error text
MaxLen == 2
\* longest second constructor argument, and longest lattice_rpc_url but the
\* default address
MaxShort == 1
\* the fields of an entity, or of a link definition, hold at most this many
\* characters together
MaxChars == 3
\* each of the two entities of a comparison holds at most this many characters
MaxPairChars == 2
\* connection losses, connection attempts and failed reconnects in a row are
\* counted up to this, and no further
MaxCount == 3

-----------------------------------------------------------------------------
(* Strings *)

\* letters (one of them upper case, with its lower case), and the four
\* characters url() rewrites or writes: ':', '/', ' ', '_'
Alphabet == {"M", "m", "k", ":", "/", " ", "_"}
\* the characters of identity keys: 'M'/'m' select the actor form of url()
KeyAlphabet == {"M", "m", "k"}

StringsUpTo(A, n) == UNION {[1..j -> A] : j \in 0..n}

Strings == StringsUpTo(Alphabet, MaxLen)
ShortStrings == StringsUpTo(Alphabet, MaxShort)

EmptyString == << >>

is_empty(s) == Len(s) = 0

\* char::to_uppercase / char::to_lowercase on the characters that occur
char_to_uppercase(c) ==
    IF c = "m" THEN "M" ELSE IF c = "k" THEN "K" ELSE c

char_to_lowercase(c) ==
    IF c = "M" THEN "m" ELSE IF c = "K" THEN "k" ELSE c

to_uppercase(s) == [i \in 1..Len(s) |-> char_to_uppercase(s[i])]

to_lowercase(s) == [i \in 1..Len(s) |-> char_to_lowercase(s[i])]

\* str::replace(from, to) for a one-character pattern and replacement
replace(s, from, to) == [i \in 1..Len(s) |-> IF s[i] = from THEN to ELSE s[i]]

\* str::starts_with(char)
starts_with(s, c) == Len(s) > 0 /\ s[1] = c

-----------------------------------------------------------------------------
(* RpcError and RpcResult *)

Ok(v) == [ok |-> TRUE, val |-> v]

Err(e) == [ok |-> FALSE, err |-> e]

RpcError(kind, msg) == [kind |-> kind, msg |-> msg]

-----------------------------------------------------------------------------
(* core::WasmCloudEntity and core::LinkDefinition *)

URL_SCHEME == <<"w", "a", "s", "m", "b", "u", "s">>

WasmCloudEntity(k, c, l) == [public_key |-> k, contract_id |-> c, link_name |-> l]

LinkDefinition(a, p, c, l) ==
    [actor_id |-> a, provider_id |-> p, contract_id |-> c, link_name |-> l]

\* provider_entity with the key taken from the wrong side of the link
provider_entity_actor_key(ld) ==
    WasmCloudEntity(ld.actor_id, ld.contract_id, ld.link_name)

actor_entity(ld) == WasmCloudEntity(ld.actor_id, EmptyString, EmptyString)

provider_entity(ld) == WasmCloudEntity(ld.provider_id, ld.contract_id, ld.link_name)

\* new_actor without its check of the key
new_actor_unchecked(public_key) ==
    Ok(WasmCloudEntity(public_key, EmptyString, EmptyString))

new_actor(public_key) ==
    IF is_empty(public_key)
    THEN Err(RpcError("InvalidParameter", "public_key may not be empty"))
    ELSE Ok(WasmCloudEntity(public_key, EmptyString, EmptyString))

\* new_provider that checks its first argument only
new_provider_one_check(contract_id, link_name) ==
    IF is_empty(contract_id)
    THEN Err(RpcError("InvalidParameter", "contract_id may not be empty"))
    ELSE Ok(WasmCloudEntity(EmptyString, contract_id, link_name))

new_provider(contract_id, link_name) ==
    IF is_empty(contract_id)
    THEN Err(RpcError("InvalidParameter", "contract_id may not be empty"))
    ELSE IF is_empty(link_name)
    THEN Err(RpcError("InvalidParameter", "link_name may not be empty"))
    ELSE Ok(WasmCloudEntity(EmptyString, contract_id, link_name))

\* url that tests the key for 'M' without folding its case
url_case_sensitive(e) ==
    IF starts_with(e.public_key, "M")
    THEN URL_SCHEME \o <<":", "/", "/">> \o e.public_key
    ELSE URL_SCHEME \o <<":", "/", "/">>
            \o to_lowercase(replace(replace(e.contract_id, ":", "/"), " ", "_"))
            \o <<"/">>
            \o to_lowercase(replace(e.link_name, " ", "_"))
            \o <<"/">>
            \o e.public_key

\* url that normalizes link_name the way it normalizes contract_id
url_link_as_contract(e) ==
    IF starts_with(to_uppercase(e.public_key), "M")
    THEN URL_SCHEME \o <<":", "/", "/">> \o e.public_key
    ELSE URL_SCHEME \o <<":", "/", "/">>
            \o to_lowercase(replace(replace(e.contract_id, ":", "/"), " ", "_"))
            \o <<"/">>
            \o to_lowercase(replace(replace(e.link_name, ":", "/"), " ", "_"))
            \o <<"/">>
            \o e.public_key

url(e) ==
    IF starts_with(to_uppercase(e.public_key), "M")
    THEN URL_SCHEME \o <<":", "/", "/">> \o e.public_key
    ELSE URL_SCHEME \o <<":", "/", "/">>
            \o to_lowercase(replace(replace(e.contract_id, ":", "/"), " ", "_"))
            \o <<"/">>
            \o to_lowercase(replace(e.link_name, " ", "_"))
            \o <<"/">>
            \o e.public_key

\* is_actor that wants both fields empty
is_actor_both_empty(e) == is_empty(e.link_name) /\ is_empty(e.contract_id)

is_actor(e) == is_empty(e.link_name) \/ is_empty(e.contract_id)

is_provider(e) == ~is_actor(e)

\* a conversion that reads a string with a '/' as a provider address
try_from_str_parsing(target) ==
    IF \E i \in 1..Len(target) : target[i] = "/"
    THEN Ok(WasmCloudEntity(EmptyString, target, target))
    ELSE new_actor(target)

\* impl TryFrom<&str> for WasmCloudEntity
try_from_str(target) == new_actor(target)

\* impl TryFrom<String> for WasmCloudEntity
try_from_String(target) == new_actor(target)

NoEntity == WasmCloudEntity(EmptyString, EmptyString, EmptyString)

NoLink == LinkDefinition(EmptyString, EmptyString, EmptyString, EmptyString)

None == "None"

\* before the first operation has returned
NoResult == [pending |-> TRUE]

\* before ServerAddress::from_str has returned an address
NoServer == [parsed |-> FALSE]

\* before Options::connect has returned a connection
NoConnection == [state |-> "none"]

NoObs == << >>

\* the variables of the entity scenarios, when a scenario does not use them
EntityIdle ==
    /\ s1 = EmptyString /\ s2 = EmptyString /\ link = NoLink
    /\ self = NoEntity /\ other = NoEntity
    /\ obs = NoObs /\ obs2 = NoObs

\* the variables of the error conversions, when a scenario does not use them
ErrorIdle == foreign = None

\* the variables of nats_connect, when a scenario does not use them
ConnIdle ==
    /\ host = None /\ nats_addr = EmptyString /\ nats_server = NoServer
    /\ dials = 0 /\ conn = NoConnection

-----------------------------------------------------------------------------
(* The &self methods, called one after the other on the entity `self` *)

CallUrl ==
    /\ pc = "built"
    /\ obs' = ("url" :> url(self))
    /\ pc' = "url_done"
    /\ UNCHANGED <<s1, s2, link, self, other, call, ret, obs2, foreign, connVars>>

CallIsActor ==
    /\ pc = "url_done"
    /\ obs' = obs @@ ("is_actor" :> is_actor(self))
    /\ pc' = "is_actor_done"
    /\ UNCHANGED <<s1, s2, link, self, other, call, ret, obs2, foreign, connVars>>

CallIsProvider ==
    /\ pc = "is_actor_done"
    /\ obs' = obs @@ ("is_provider" :> is_provider(self))
    /\ pc' = "done"
    /\ UNCHANGED <<s1, s2, link, self, other, call, ret, obs2, foreign, connVars>>

-----------------------------------------------------------------------------
(* Scenario: an entity written as a struct literal (its fields are public) *)

\* the ways to split at most n characters over the three fields
Splits(n) == {t \in (0..n) \X (0..n) \X (0..n) : t[1] + t[2] + t[3] <= n}

\* the entities whose fields hold at most n characters together
Entities(n) ==
    UNION {{WasmCloudEntity(k, c, l) : k \in [1..t[1] -> KeyAlphabet],
                                       c \in [1..t[2] -> Alphabet],
                                       l \in [1..t[3] -> Alphabet]}
           : t \in Splits(n)}

InitEntity ==
    /\ pc = "built"
    /\ self \in Entities(MaxChars)
    /\ s1 = EmptyString /\ s2 = EmptyString /\ link = NoLink /\ other = NoEntity
    /\ call = "literal" /\ ret = NoResult /\ obs = NoObs /\ obs2 = NoObs
    /\ ErrorIdle /\ ConnIdle

NextEntity == CallUrl \/ CallIsActor \/ CallIsProvider

SpecEntity == InitEntity /\ [][NextEntity]_vars

-----------------------------------------------------------------------------
(* Scenario: the constructors and the string conversions *)

\* the caller keeps the entity of an Ok result, and stops at an Err
Returned(r, name) ==
    /\ ret' = r
    /\ call' = name
    /\ self' = IF r.ok THEN r.val ELSE self
    /\ pc' = IF r.ok THEN "built" ELSE "failed"
    /\ UNCHANGED <<s1, s2, link, other, obs, obs2, foreign, connVars>>

CallNewActor == pc = "start" /\ Returned(new_actor(s1), "new_actor")

CallNewProvider == pc = "start" /\ Returned(new_provider(s1, s2), "new_provider")

CallTryFromStr == pc = "start" /\ Returned(try_from_str(s1), "try_from_str")

CallTryFromString == pc = "start" /\ Returned(try_from_String(s1), "try_from_String")

\* strings that have the shape of a provider locator
ProviderLocators ==
    {url(WasmCloudEntity(k, <<"k">>, <<"m">>)) : k \in StringsUpTo(KeyAlphabet, MaxShort)}

InitCtor ==
    /\ pc = "start"
    /\ s1 \in Strings \cup ProviderLocators
    /\ s2 \in ShortStrings
    /\ link = NoLink /\ self = NoEntity /\ other = NoEntity
    /\ call = None /\ ret = NoResult /\ obs = NoObs /\ obs2 = NoObs
    /\ ErrorIdle /\ ConnIdle

NextCtor ==
    \/ CallNewActor \/ CallNewProvider \/ CallTryFromStr \/ CallTryFromString
    \/ CallUrl \/ CallIsActor \/ CallIsProvider

SpecCtor == InitCtor /\ [][NextCtor]_vars

-----------------------------------------------------------------------------
(* Scenario: the two projections of a LinkDefinition *)

\* the ways to split at most n characters over the four fields
Splits4(n) ==
    {t \in (0..n) \X (0..n) \X (0..n) \X (0..n) : t[1] + t[2] + t[3] + t[4] <= n}

\* the link definitions whose fields hold at most n characters together
LinkDefinitions(n) ==
    UNION {{LinkDefinition(a, p, c, l) : a \in [1..t[1] -> KeyAlphabet],
                                         p \in [1..t[2] -> KeyAlphabet],
                                         c \in [1..t[3] -> Alphabet],
                                         l \in [1..t[4] -> Alphabet]}
           : t \in Splits4(n)}

CallActorEntity ==
    /\ pc = "start"
    /\ self' = actor_entity(link)
    /\ call' = "actor_entity"
    /\ pc' = "built"
    /\ UNCHANGED <<s1, s2, link, other, ret, obs, obs2, foreign, connVars>>

CallProviderEntity ==
    /\ pc = "start"
    /\ self' = provider_entity(link)
    /\ call' = "provider_entity"
    /\ pc' = "built"
    /\ UNCHANGED <<s1, s2, link, other, ret, obs, obs2, foreign, connVars>>

InitLink ==
    /\ pc = "start"
    /\ link \in LinkDefinitions(MaxChars)
    /\ s1 = EmptyString /\ s2 = EmptyString /\ self = NoEntity /\ other = NoEntity
    /\ call = None /\ ret = NoResult /\ obs = NoObs /\ obs2 = NoObs
    /\ ErrorIdle /\ ConnIdle

NextLink ==
    \/ CallActorEntity \/ CallProviderEntity
    \/ CallUrl \/ CallIsActor \/ CallIsProvider

SpecLink == InitLink /\ [][NextLink]_vars

-----------------------------------------------------------------------------
(* Properties of the entity scenarios, and the words they are stated in *)

\* the locator's fixed beginning, "wasmbus://"
LocatorPrefix == <<"w", "a", "s", "m", "b", "u", "s", ":", "/", "/">>

\* a public key that begins with 'M' or 'm'
ModuleKey(k) == Len(k) > 0 /\ k[1] \in {"M", "m"}

\* the lower case of a character
LowerCase(c) == CASE c = "M" -> "m" [] c = "K" -> "k" [] OTHER -> c

\* N: every ':' becomes '/', every ' ' becomes '_', every letter lower case
NormalizedContract(s) ==
    [i \in 1..Len(s) |-> CASE s[i] = ":" -> "/" [] s[i] = " " -> "_"
                           [] OTHER -> LowerCase(s[i])]

\* L: every ' ' becomes '_', every letter lower case
NormalizedLink(s) ==
    [i \in 1..Len(s) |-> CASE s[i] = " " -> "_" [] OTHER -> LowerCase(s[i])]

InvalidParameter(r) == ~r.ok /\ r.err.kind = "InvalidParameter"

\* C2: url() is "wasmbus://" + public_key for a key that begins with 'M' or
\* 'm', and "wasmbus://" + N(contract_id) + "/" + L(link_name) + "/" +
\* public_key for every other key, the key rendered unchanged.
C2_UrlForm ==
    "url" \in DOMAIN obs =>
        obs["url"] =
            IF ModuleKey(self.public_key)
            THEN LocatorPrefix \o self.public_key
            ELSE LocatorPrefix \o NormalizedContract(self.contract_id) \o <<"/">>
                    \o NormalizedLink(self.link_name) \o <<"/">> \o self.public_key

\* url() has run on an entity of the provider form whose contract id holds a
\* ':' or an upper-case letter and whose link name holds a ' '
C2_Witness ==
    /\ "url" \in DOMAIN obs
    /\ self.public_key = <<"k">>
    /\ self.contract_id \in {<<":">>, <<"M">>}
    /\ self.link_name = <<" ">>

\* C6: of is_actor() and is_provider() exactly one is true, and is_actor() is
\* true exactly when link_name is empty or contract_id is empty.
C6_ActorXorProvider ==
    "is_provider" \in DOMAIN obs =>
        /\ obs["is_actor"] # obs["is_provider"]
        /\ obs["is_actor"] <=> (self.link_name = << >> \/ self.contract_id = << >>)

\* both predicates have run on an entity with exactly one of the two fields empty
C6_Witness ==
    /\ "is_provider" \in DOMAIN obs
    /\ self.link_name = << >>
    /\ self.contract_id # << >>
    /\ self.public_key # << >>

\* C4: new_actor(k) fails, with InvalidParameter, exactly when k is empty;
\* otherwise it returns the entity (k, "", ""), which is_actor() and not
\* is_provider().
C4_NewActor ==
    call = "new_actor" =>
        /\ ~ret.ok <=> s1 = << >>
        /\ ~ret.ok => InvalidParameter(ret)
        /\ ret.ok => /\ ret.val = WasmCloudEntity(s1, << >>, << >>)
                     /\ self = ret.val
        /\ "is_actor" \in DOMAIN obs => obs["is_actor"]
        /\ "is_provider" \in DOMAIN obs => ~obs["is_provider"]

\* new_actor returned an entity and both predicates have run on it
C4_Witness ==
    /\ call = "new_actor"
    /\ pc = "done"
    /\ Len(s1) = MaxLen

\* C5: new_provider(c, l) fails, with InvalidParameter, exactly when c or l is
\* empty; otherwise it returns the entity ("", c, l), which is_provider() and
\* not is_actor().
C5_NewProvider ==
    call = "new_provider" =>
        /\ ~ret.ok <=> (s1 = << >> \/ s2 = << >>)
        /\ ~ret.ok => InvalidParameter(ret)
        /\ ret.ok => /\ ret.val = WasmCloudEntity(<< >>, s1, s2)
                     /\ self = ret.val
        /\ "is_actor" \in DOMAIN obs => ~obs["is_actor"]
        /\ "is_provider" \in DOMAIN obs => obs["is_provider"]

\* new_provider returned an entity and both predicates have run on it
C5_Witness ==
    /\ call = "new_provider"
    /\ pc = "done"
    /\ Len(s1) = MaxLen
    /\ s2 # << >>

\* C9: a string conversion fails, with InvalidParameter, for the empty string,
\* and for every other string s returns the actor entity (s, "", ""), never a
\* provider entity, whatever the shape of s.
C9_TryFromIsActor ==
    call \in {"try_from_str", "try_from_String"} =>
        /\ s1 = << >> => InvalidParameter(ret)
        /\ s1 # << >> => /\ ret.ok
                         /\ ret.val = WasmCloudEntity(s1, << >>, << >>)
                         /\ self = ret.val
        /\ "is_actor" \in DOMAIN obs => obs["is_actor"]
        /\ "is_provider" \in DOMAIN obs => ~obs["is_provider"]

\* a provider locator, "wasmbus://k/m/k", was converted and both predicates
\* have run on the result
C9_Witness ==
    /\ call = "try_from_str"
    /\ pc = "done"
    /\ s1 = url(WasmCloudEntity(<<"k">>, <<"k">>, <<"m">>))

\* C3 as claimed: neither projection fails; actor_entity() is the actor entity
\* (actor_id, "", ""); provider_entity() is a provider entity that holds
\* provider_id, contract_id and link_name.
C3_Projections ==
    /\ call \in {"actor_entity", "provider_entity"} => pc # "failed"
    /\ call = "actor_entity" =>
          /\ self = WasmCloudEntity(link.actor_id, << >>, << >>)
          /\ "is_actor" \in DOMAIN obs => obs["is_actor"]
    /\ call = "provider_entity" =>
          /\ self = WasmCloudEntity(link.provider_id, link.contract_id, link.link_name)
          /\ "is_provider" \in DOMAIN obs => obs["is_provider"]

\* C3 amended: as claimed, except that provider_entity() is a provider entity
\* (is_provider() true) exactly when the link definition's contract_id and
\* link_name are both non-empty, and an actor entity otherwise.
C3_ProjectionsAmended ==
    /\ call \in {"actor_entity", "provider_entity"} => pc # "failed"
    /\ call = "actor_entity" =>
          /\ self = WasmCloudEntity(link.actor_id, << >>, << >>)
          /\ "is_actor" \in DOMAIN obs => obs["is_actor"]
    /\ call = "provider_entity" =>
          /\ self = WasmCloudEntity(link.provider_id, link.contract_id, link.link_name)
          /\ "is_provider" \in DOMAIN obs =>
                (obs["is_provider"] <=>
                    (link.contract_id # << >> /\ link.link_name # << >>))
          /\ "is_actor" \in DOMAIN obs =>
                (obs["is_actor"] <=>
                    (link.contract_id = << >> \/ link.link_name = << >>))

\* provider_entity() ran on a link definition with a contract id, a link name
\* and two different ids, and is_provider() ran on the result
C3_Witness ==
    /\ call = "provider_entity"
    /\ pc = "done"
    /\ link.actor_id # link.provider_id
    /\ link.contract_id # << >>
    /\ link.link_name # << >>
    /\ obs["is_provider"]

-----------------------------------------------------------------------------
(* Scenario: the locators of two entities *)

\* keys: the actor form ('M'), the provider form ('k') and the separator
PairKeyAlphabet == {"M", "k", "/"}
\* contract ids and link names: every character url() rewrites or writes
PairAlphabet == {"M", "m", ":", "/", " ", "_"}

\* the entities compared, whose fields hold at most n characters together
PairEntities(n) ==
    UNION {{WasmCloudEntity(k, c, l) : k \in [1..t[1] -> PairKeyAlphabet],
                                       c \in [1..t[2] -> PairAlphabet],
                                       l \in [1..t[3] -> PairAlphabet]}
           : t \in Splits(n)}

\* url() of `self` and of a second entity
CallUrlBoth ==
    /\ pc = "built"
    /\ \E e \in PairEntities(MaxPairChars) : other' = e
    /\ obs' = ("url" :> url(self))
    /\ obs2' = ("url" :> url(other'))
    /\ pc' = "done"
    /\ UNCHANGED <<s1, s2, link, self, call, ret, foreign, connVars>>

InitPair ==
    /\ pc = "built"
    /\ self \in PairEntities(MaxPairChars)
    /\ other = NoEntity
    /\ s1 = EmptyString /\ s2 = EmptyString /\ link = NoLink
    /\ call = "literal" /\ ret = NoResult /\ obs = NoObs /\ obs2 = NoObs
    /\ ErrorIdle /\ ConnIdle

NextPair == CallUrlBoth

SpecPair == InitPair /\ [][NextPair]_vars

\* two characters that differ at most by letter case
SameLetter(a, b) == a = b \/ {a, b} = {"M", "m"} \/ {a, b} = {"K", "k"}

\* two characters that differ at most by letter case or as ' ' and '_'
LinkVariantChar(a, b) == SameLetter(a, b) \/ {a, b} = {" ", "_"}

\* ... or as ':' and '/'
ContractVariantChar(a, b) == LinkVariantChar(a, b) \/ {a, b} = {":", "/"}

\* link names that differ only by letter case and ' ' against '_'
LinkVariants(x, y) ==
    Len(x) = Len(y) /\ \A i \in 1..Len(x) : LinkVariantChar(x[i], y[i])

\* contract ids that differ only by letter case, ' ' against '_', ':' against '/'
ContractVariants(x, y) ==
    Len(x) = Len(y) /\ \A i \in 1..Len(x) : ContractVariantChar(x[i], y[i])

\* entities that differ only by the variants normalization collapses
EntityVariants(e, f) ==
    /\ e.public_key = f.public_key
    /\ ContractVariants(e.contract_id, f.contract_id)
    /\ LinkVariants(e.link_name, f.link_name)

HasSlash(s) == \E i \in 1..Len(s) : s[i] = "/"

\* C1 as claimed: two entities that differ by more than the variants that
\* normalization collapses have different locators.
C1_Injective ==
    (pc = "done" /\ ~EntityVariants(self, other)) => obs["url"] # obs2["url"]

\* C1 amended: among entities whose public_key and link_name hold no '/',
\* two entities with the same locator have the same public_key and, unless
\* that key begins with 'M' or 'm' (contract_id and link_name are then not
\* rendered), contract ids and link names that differ only by the variants
\* normalization collapses.
C1_InjectiveAmended ==
    (/\ pc = "done"
     /\ ~HasSlash(self.public_key) /\ ~HasSlash(self.link_name)
     /\ ~HasSlash(other.public_key) /\ ~HasSlash(other.link_name)
     /\ obs["url"] = obs2["url"])
    => /\ self.public_key = other.public_key
       /\ \/ ModuleKey(self.public_key)
          \/ /\ ContractVariants(self.contract_id, other.contract_id)
             /\ LinkVariants(self.link_name, other.link_name)

\* url() has run on two provider entities without a '/' in key or link name
\* that differ in contract_id and have one locator
C1_Witness ==
    /\ pc = "done"
    /\ self # other
    /\ is_provider(self) /\ is_provider(other)
    /\ ~ModuleKey(self.public_key)
    /\ ~HasSlash(self.public_key) /\ ~HasSlash(other.public_key)
    /\ ~HasSlash(self.link_name) /\ ~HasSlash(other.link_name)
    /\ self.contract_id # other.contract_id
    /\ obs["url"] = obs2["url"]

-----------------------------------------------------------------------------
(* Scenario: a foreign error converted into RpcError *)

\* the text a foreign error displays, format!("{}", e)
Display(e) == e.text

\* impl From<String> for RpcError
from_String(s) == RpcError("Other", s.text)

\* impl From<&str> for RpcError
from_str(s) == RpcError("Other", s.text)

\* an io conversion that keeps the kind and loses the error's text
from_io_Error_no_text(e) == RpcError("Other", <<"i", "o">>)

\* impl From<std::io::Error> for RpcError
from_io_Error(e) == RpcError("Other", <<"i", "o", ":", " ">> \o Display(e))

CborEncode == <<"c", "b", "o", "r", "-", "e", "n", "c", "o", "d", "e", ":", " ">>

CborDecode == <<"c", "b", "o", "r", "-", "d", "e", "c", "o", "d", "e", ":", " ">>

\* impl From<minicbor::encode::Error<std::io::Error>> for RpcError
from_encode_Error_io(e) == RpcError("Ser", CborEncode \o Display(e))

\* impl From<minicbor::encode::Error<RpcError>> for RpcError
from_encode_Error_RpcError(e) == RpcError("Ser", CborEncode \o Display(e))

\* impl From<minicbor::decode::Error> for RpcError
from_decode_Error(e) == RpcError("Deser", CborDecode \o Display(e))

ForeignTypes ==
    {"String", "&str", "std::io::Error", "minicbor::encode::Error<std::io::Error>",
     "minicbor::encode::Error<RpcError>", "minicbor::decode::Error"}

ForeignError(type, text) == [type |-> type, text |-> text]

\* `.into()` / `?` on a foreign error: its type selects the impl
Converted(type, e) ==
    /\ pc = "start"
    /\ foreign.type = type
    /\ ret' = e
    /\ call' = "from"
    /\ pc' = "done"
    /\ UNCHANGED <<entityVars, foreign, connVars>>

FromString == Converted("String", from_String(foreign))

FromStr == Converted("&str", from_str(foreign))

FromIoError == Converted("std::io::Error", from_io_Error(foreign))

FromEncodeErrorIo ==
    Converted("minicbor::encode::Error<std::io::Error>", from_encode_Error_io(foreign))

FromEncodeErrorRpcError ==
    Converted("minicbor::encode::Error<RpcError>", from_encode_Error_RpcError(foreign))

FromDecodeError == Converted("minicbor::decode::Error", from_decode_Error(foreign))

InitError ==
    /\ pc = "start"
    /\ foreign \in {ForeignError(ty, tx) : ty \in ForeignTypes, tx \in Strings}
    /\ call = None /\ ret = NoResult
    /\ EntityIdle /\ ConnIdle

NextError ==
    \/ FromString \/ FromStr \/ FromIoError
    \/ FromEncodeErrorIo \/ FromEncodeErrorRpcError \/ FromDecodeError

SpecError == InitError /\ [][NextError]_vars

\* whether `sub` occurs in `s` as a contiguous run of characters
Contains(s, sub) ==
    \E i \in 0..(Len(s) - Len(sub)) : SubSeq(s, i + 1, i + Len(sub)) = sub

\* C8: a converted foreign error has the kind its type fixes (Deser for a
\* decode error, Ser for either encode error, Other for an I/O error, a
\* String or a &str), every conversion returns an RpcError, and the foreign
\* error's text is part of the RpcError's message.
C8_Wrapping ==
    pc = "done" =>
        /\ ret.kind =
              CASE foreign.type = "minicbor::decode::Error" -> "Deser"
                [] foreign.type \in {"minicbor::encode::Error<std::io::Error>",
                                     "minicbor::encode::Error<RpcError>"} -> "Ser"
                [] foreign.type \in {"std::io::Error", "String", "&str"} -> "Other"
        /\ Contains(ret.msg, foreign.text)

\* an I/O error with a text of the greatest length has been converted
C8_Witness ==
    /\ pc = "done"
    /\ foreign.type = "std::io::Error"
    /\ Len(foreign.text) = MaxLen
    /\ ret.kind = "Other"

-----------------------------------------------------------------------------
(* Scenario: HostData::nats_connect, and the connection it returns *)

TEST_HARNESS == <<"_", "T", "E", "S", "T", "_">>

DEFAULT_NATS_ADDR ==
    <<"n", "a", "t", "s", ":", "/", "/", "1", "2", "7", ".", "0", ".", "0", ".", "1",
      ":", "4", "2", "2", "2">>

HostData(id, rpc_url) == [host_id |-> id, lattice_rpc_url |-> rpc_url]

is_test(h) == h.host_id = TEST_HARNESS

NoLimit == [some |-> FALSE]

Some(n) == [some |-> TRUE, val |-> n]

\* the address with the test for the empty url left out
resolve_addr_no_default(h) == h.lattice_rpc_url

\* let nats_addr = if !self.lattice_rpc_url.is_empty() { .. } else { .. }
resolve_addr(h) ==
    IF ~is_empty(h.lattice_rpc_url) THEN h.lattice_rpc_url ELSE DEFAULT_NATS_ADDR

\* options that allow two reconnect attempts in a row
connect_options_limited == [max_reconnects |-> Some(2)]

\* nats_aflowt::Options::default().max_reconnects(None)
connect_options == [max_reconnects |-> NoLimit]

\* a reconnect attempt is allowed while the attempts that failed in a row stay
\* under the option's limit, and always when there is no limit
MayReconnect(c) ==
    ~c.options.max_reconnects.some \/ c.reconnects < c.options.max_reconnects.val

Resolve ==
    /\ pc = "start"
    /\ nats_addr' = resolve_addr(host)
    /\ call' = "nats_connect"
    /\ pc' = "parse"
    /\ UNCHANGED <<ret, entityVars, foreign, host, nats_server, dials, conn>>

\* ServerAddress::from_str(nats_addr).map_err(..)? : the library accepts the
\* address or rejects it
Parse ==
    /\ pc = "parse"
    /\ \E parsed \in BOOLEAN :
          IF parsed
          THEN /\ nats_server' = [parsed |-> TRUE, address |-> nats_addr]
               /\ pc' = "connect"
               /\ ret' = ret
          ELSE /\ ret' = Err(RpcError("InvalidParameter",
                                      <<"Invalid nats server url", nats_addr>>))
               /\ pc' = "returned"
               /\ nats_server' = nats_server
    /\ UNCHANGED <<call, entityVars, foreign, host, nats_addr, dials, conn>>

\* Options::default().max_reconnects(None).connect(vec![nats_server]).await
\* .map_err(..)? : the first attempt succeeds or fails
Connect ==
    /\ pc = "connect"
    /\ dials' = dials + 1
    /\ \E connected \in BOOLEAN :
          IF connected
          THEN /\ conn' = [options |-> connect_options, servers |-> <<nats_server>>,
                           state |-> "connected", reconnects |-> 0, losses |-> 0]
               /\ ret' = Ok("nc")
          ELSE /\ ret' = Err(RpcError("ProviderInit",
                                      <<"nats connection failed", nats_addr>>))
               /\ conn' = conn
    /\ pc' = "returned"
    /\ UNCHANGED <<call, entityVars, foreign, host, nats_addr, nats_server>>

Connected == pc = "returned" /\ ret.ok

Bump(n) == IF n < MaxCount THEN n + 1 ELSE n

\* the server goes away, or the network does
LoseConnection ==
    /\ Connected
    /\ conn.state = "connected"
    /\ conn' = [conn EXCEPT !.state = "disconnected", !.losses = Bump(@)]
    /\ UNCHANGED <<pc, call, ret, entityVars, foreign, host, nats_addr, nats_server, dials>>

\* the connection's reconnect loop: another attempt, unless the limit is reached
Reconnect ==
    /\ Connected
    /\ conn.state = "disconnected"
    /\ conn' = [conn EXCEPT !.state = IF MayReconnect(conn) THEN "reconnecting"
                                                             ELSE "closed"]
    /\ UNCHANGED <<pc, call, ret, entityVars, foreign, host, nats_addr, nats_server, dials>>

\* the attempt reaches the server, or does not
ReconnectEnds ==
    /\ Connected
    /\ conn.state = "reconnecting"
    /\ \E connected \in BOOLEAN :
          conn' = IF connected
                  THEN [conn EXCEPT !.state = "connected", !.reconnects = 0]
                  ELSE [conn EXCEPT !.state = "disconnected", !.reconnects = Bump(@)]
    /\ dials' = Bump(dials)
    /\ UNCHANGED <<pc, call, ret, entityVars, foreign, host, nats_addr, nats_server>>

HostDatas ==
    {HostData(id, u) : id \in {TEST_HARNESS, <<"k">>},
                       u \in ShortStrings \cup {DEFAULT_NATS_ADDR}}

InitConn ==
    /\ pc = "start"
    /\ host \in HostDatas
    /\ nats_addr = EmptyString /\ nats_server = NoServer /\ dials = 0 /\ conn = NoConnection
    /\ call = None /\ ret = NoResult
    /\ EntityIdle /\ ErrorIdle

NextConn ==
    \/ Resolve \/ Parse \/ Connect
    \/ LoseConnection \/ Reconnect \/ ReconnectEnds

SpecConn == InitConn /\ [][NextConn]_vars

\* the reconnect loop runs as long as the connection exists
SpecConnLive == SpecConn /\ WF_vars(Reconnect)

\* C7: nats_connect resolves lattice_rpc_url when it is non-empty and the
\* default address only when it is empty; an address that fails to parse
\* gives InvalidParameter with no connection attempted; one that parses and
\* fails to connect gives ProviderInit; otherwise the connection is returned.
C7_NatsConnect ==
    /\ pc # "start" =>
          /\ host.lattice_rpc_url # << >> => nats_addr = host.lattice_rpc_url
          /\ host.lattice_rpc_url = << >> => nats_addr = DEFAULT_NATS_ADDR
    /\ pc = "connect" => nats_server.address = nats_addr /\ dials = 0
    /\ (pc = "returned" /\ ~nats_server.parsed) =>
          /\ ~ret.ok /\ ret.err.kind = "InvalidParameter"
          /\ dials = 0 /\ conn = NoConnection
    /\ (pc = "returned" /\ nats_server.parsed) =>
          /\ nats_server.address = nats_addr
          /\ dials >= 1
          /\ conn = NoConnection => ~ret.ok /\ ret.err.kind = "ProviderInit"
          /\ conn # NoConnection => ret.ok /\ conn.servers = <<nats_server>>

\* with an empty lattice_rpc_url, the call returned the connection to the
\* default address
C7_Witness ==
    /\ pc = "returned"
    /\ host.lattice_rpc_url = << >>
    /\ ret.ok
    /\ conn.servers = <<[parsed |-> TRUE, address |-> DEFAULT_NATS_ADDR]>>
    /\ conn.state = "connected"

\* C10: the connection nats_connect returns has no limit on reconnect
\* attempts: it never gives up (it is never closed), and every loss of the
\* connection is followed by another reconnect attempt.
C10_NeverGivesUp ==
    /\ [](Connected => conn.options.max_reconnects = NoLimit /\ conn.state # "closed")
    /\ (Connected /\ conn.state = "disconnected")
          ~> (Connected /\ conn.state = "reconnecting")

\* a reconnect attempt runs after several losses and several failed attempts
C10_Witness ==
    /\ Connected
    /\ conn.state = "reconnecting"
    /\ conn.losses = MaxCount
    /\ conn.reconnects = MaxCount

=============================================================================
